---- MODULE Spec2Model ----
(***************************************************************************)
(* Dynamic selection of base forecasting models (DCS-LA and DSNAW).        *)
(*                                                                         *)
(* The model follows src/src/models/ensemble/dynamic_selection:            *)
(*   base_dynamic_selection.py            DynamicSelection                 *)
(*   dcs_la/dynamic_selection_by_local_accuracy.py   DCSLARegressor        *)
(*   dsnaw/dsnaw.py                       DSNAW                            *)
(*                                                                         *)
(* Numbers.  Series values are integers.  Every value the code computes    *)
(* from them in floating point (means, errors, predictions) is kept as an  *)
(* exact fraction <<num, den>> in lowest terms with den > 0; rounding is   *)
(* not modelled.  Similarity scores are kept as a key that orders the      *)
(* windows exactly as the score does.                                      *)
(*                                                                         *)
(* Sequences are 1-based here and 0-based in the code: element i of the    *)
(* code is element i+1 of the model.  The variable step counts finished    *)
(* iterations, so it is the code's loop variable at the top of the loop.   *)
(***************************************************************************)
EXTENDS Integers, Sequences, FiniteSets, TLC

\* ------------------------------------------------------------------ bounds

\* Longest small input series.
MaxLen == 6
\* Small series take their values in 0..MaxVal.
MaxVal == 1
\* windows_size ranges over 1..MaxW.
MaxW == 2
\* horizon ranges over -1..MaxHorizon.
MaxHorizon == 2
\* top_k and last_k range over -1..MaxK.
MaxK == 2
\* An instance is called at most MaxCalls times in succession.
MaxCalls == 2
\* The pool is fit on the lag windows of a series that has FitPairs of them.
FitPairs == 2

\* --------------------------------------------------------------- arithmetic

Min(a, b) == IF a < b THEN a ELSE b
Max(a, b) == IF a < b THEN b ELSE a
Abs(a) == IF a < 0 THEN 0 - a ELSE a

RECURSIVE GCD(_, _)
GCD(a, b) == IF b = 0 THEN a ELSE GCD(b, a % b)

\* The fraction n/d (d # 0) in lowest terms with a positive denominator.
Rat(n, d) ==
    LET g == GCD(Abs(n), Abs(d))
        s == IF d < 0 THEN 0 - 1 ELSE 1
    IN  << (s * n) \div g, (s * d) \div g >>

RatInt(n) == << n, 1 >>
RatAdd(x, y) == Rat(x[1] * y[2] + y[1] * x[2], x[2] * y[2])
RatSub(x, y) == Rat(x[1] * y[2] - y[1] * x[2], x[2] * y[2])
RatMul(x, y) == Rat(x[1] * y[1], x[2] * y[2])
RatDivInt(x, n) == Rat(x[1], x[2] * n)
RatAbs(x) == << Abs(x[1]), x[2] >>

\* a/b < c/d for a, c >= 0 and b, d > 0, by continued fractions: no product
\* is formed, so large numerators stay inside the integers TLC has.
RECURSIVE FracLess(_, _, _, _)
FracLess(a, b, c, d) ==
    LET qa == a \div b
        qc == c \div d
        ra == a % b
        rc == c % d
    IN  IF qa # qc THEN qa < qc
        ELSE IF rc = 0 THEN FALSE
        ELSE IF ra = 0 THEN TRUE
        ELSE FracLess(d, rc, b, ra)

\* x < y for fractions x, y >= 0.
RatLess(x, y) == FracLess(x[1], x[2], y[1], y[2])

\* The sequence f, every element computed once.
Array(f) == f \o << >>

RECURSIVE SumSeq(_)
SumSeq(s) == IF Len(s) = 0 THEN 0 ELSE Head(s) + SumSeq(Tail(s))

RECURSIVE RatSum(_)
RatSum(s) == IF Len(s) = 0 THEN RatInt(0) ELSE RatAdd(Head(s), RatSum(Tail(s)))

Dot(a, b) == SumSeq(Array([i \in 1..Min(Len(a), Len(b)) |-> a[i] * b[i]]))

\* ------------------------------------------------------------ Python slices

\* The position a slice bound b denotes in a sequence of length n.
SliceBound(n, b) == IF b < 0 THEN Max(n + b, 0) ELSE Min(b, n)

\* s[:e]
SliceTo(s, e) == SubSeq(s, 1, SliceBound(Len(s), e))

\* s[b:]
SliceFrom(s, b) == SubSeq(s, SliceBound(Len(s), b) + 1, Len(s))

\* ------------------------------------------------ DynamicSelection (base)

\* A loop that runs to the end of the series: range(W, len(series)).
LagStopFull(series) == Len(series)

\* range(self.windows_size, len(series)-1): the first value the loop
\* variable does not take.
LagStop(series) == Len(series) - 1

\* The loop of _extract_lag_windows from loop variable i on; acc holds the
\* windows and targets appended so far.
RECURSIVE LagLoop(_, _, _, _)
LagLoop(series, W, i, acc) ==
    IF i >= LagStop(series) THEN acc
    ELSE LagLoop(series, W, i + 1,
                 [windows |-> Append(acc.windows, SubSeq(series, i - W + 1, i)),
                  targets |-> Append(acc.targets, series[i + 1])])

\* _extract_lag_windows(series) of a selector with windows_size = W.
ExtractLagWindows(series, W) ==
    LagLoop(series, W, W, [windows |-> << >>, targets |-> << >>])

\* ------------------------------------------------------------- base models

\* The pool holds two kinds of deterministic base model: "mean" predicts the
\* mean of the targets it was last fit on, "last" predicts the last element
\* of the input window.  Both refuse an empty sample, as scikit-learn
\* estimators do, and "mean" refuses to predict before its first fit.
Unfit == [fit |-> FALSE, mean |-> RatInt(0)]

ModelFit(kind, X, y) ==
    IF kind = "mean" THEN [fit |-> TRUE, mean |-> Rat(SumSeq(y), Len(y))]
    ELSE [fit |-> TRUE, mean |-> RatInt(0)]

ModelPredictRow(kind, st, x) ==
    IF kind = "mean" THEN st.mean ELSE RatInt(x[Len(x)])

ModelPredict(kind, st, X) ==
    Array([i \in 1..Len(X) |-> ModelPredictRow(kind, st, X[i])])

\* What model.predict(X) raises: "none" when it returns.
PredictRaises(kind, st, X) ==
    IF kind = "mean" /\ ~st.fit THEN "NotFitted"
    ELSE IF Len(X) = 0 THEN "ValueError"
    ELSE "none"

\* ------------------------------------------------------------------ metrics

RatSq(x) == RatMul(x, x)

\* sklearn.metrics.mean_squared_error(y, y_pred) on a non-empty sample.
MeanSquaredError(y, y_pred) ==
    RatDivInt(RatSum(Array([i \in 1..Len(y) |->
                                RatSq(RatSub(RatInt(y[i]), y_pred[i]))])),
              Len(y))

\* sklearn.metrics.mean_absolute_error(y, y_pred) on a non-empty sample.
MeanAbsoluteError(y, y_pred) ==
    RatDivInt(RatSum(Array([i \in 1..Len(y) |->
                                RatAbs(RatSub(RatInt(y[i]), y_pred[i]))])),
              Len(y))

\* The first position holding the greatest error: np.argmax(errors).
ArgMaxFirst(errors) ==
    CHOOSE i \in 1..Len(errors) :
        /\ \A j \in 1..Len(errors) : ~RatLess(errors[i], errors[j])
        /\ \A j \in 1..(i - 1) : RatLess(errors[j], errors[i])

\* The last position holding the least error.
ArgMinLast(errors) ==
    CHOOSE i \in 1..Len(errors) :
        /\ \A j \in 1..Len(errors) : ~RatLess(errors[j], errors[i])
        /\ \A j \in (i + 1)..Len(errors) : RatLess(errors[i], errors[j])

\* np.argmin(errors): the first position holding the least error.
ArgMin(errors) ==
    CHOOSE i \in 1..Len(errors) :
        /\ \A j \in 1..Len(errors) : ~RatLess(errors[j], errors[i])
        /\ \A j \in 1..(i - 1) : RatLess(errors[i], errors[j])

\* --------------------------------------------------------------- similarity

\* A key that orders windows w as cosine_similarity([q], [w]) does, for
\* vectors without negative entries: the squared cosine times |q|^2.  A zero
\* vector scores 0, as scikit-learn's normalisation gives it.
CosineKey(q, w) ==
    LET qw == Dot(q, w)
        ww == Dot(w, w)
    IN  IF ww = 0 THEN RatInt(0) ELSE Rat(qw * qw, ww)

\* A key that orders windows w as euclidean_distances([q], [w]) does: the
\* squared distance.
EuclideanKey(q, w) ==
    RatInt(SumSeq(Array([i \in 1..Len(q) |-> (q[i] - w[i]) * (q[i] - w[i])])))

\* Position i comes before position j in keys.argsort(): by key, and among
\* equal keys by the rule of the build's sorting routine.
SortsBefore(keys, rule, i, j) ==
    \/ RatLess(keys[i], keys[j])
    \/ /\ keys[i] = keys[j]
       /\ IF rule = "stable" THEN i < j ELSE i > j

\* The positions 1..n of keys in ascending key order: position n is put
\* after the positions that sort before it.
RECURSIVE ArgSortUpTo(_, _, _)
ArgSortUpTo(keys, rule, n) ==
    IF n = 0 THEN << >>
    ELSE LET prev == ArgSortUpTo(keys, rule, n - 1)
             c == Cardinality({ p \in 1..(n - 1) : SortsBefore(keys, rule, prev[p], n) })
         IN  SubSeq(prev, 1, c) \o << n >> \o SubSeq(prev, c + 1, n - 1)

\* keys.argsort(): the positions of keys in ascending key order.
ArgSort(keys, rule) == ArgSortUpTo(keys, rule, Len(keys))

\* -------------------------------------------------------------------- state

VARIABLES
    variant,          \* "DCSLA" (DCSLARegressor) or "DSNAW": the selector's class
    base_models,      \* self.base_models: the pool, a sequence of model kinds
    windows_size,     \* self.windows_size
    top_k,            \* self.top_k (DCSLARegressor; 0 in a DSNAW)
    similarity,       \* self.similarity (DCSLARegressor; "none" in a DSNAW)
    last_k,           \* self.last_k (DSNAW; 0 in a DCSLARegressor)
    sort_rule,        \* how the build's argsort orders equal keys
    history_errors,   \* self.history_errors, by position in the pool
    model_state,      \* what each pool model holds from its last fit
    pc,               \* "idle", "loop" (inside predict), "done", "raised"
    y_series,         \* predict's argument, as an array
    horizon,          \* predict's argument
    y_train, y_real_future, curr_lags, forecast,   \* predict's locals
    step,             \* iterations of predict's loop finished so far
    iter,             \* the locals of the last iteration that selected a model
    selected,         \* the pool position of best_model, per finished iteration
    err,              \* the exception predict raised, "none" if none
    ret,              \* what predict returned: << >> or <<forecast, y_real_future>>
    nfit, npredict,   \* base-model fit / predict invocations of this predict call
    hist_at_call,     \* history_errors when this predict call started
    log,              \* the finished operations of this instance, oldest first
    heap,             \* two selectors side by side: what each model object holds
    sel               \* two selectors side by side: each one's attributes and
                      \* the locals and position of its predict call

config == << variant, base_models, windows_size, top_k, similarity, last_k, sort_rule >>
locals == << y_series, horizon, y_train, y_real_future, curr_lags, forecast, step,
             iter, selected >>
vars == << variant, base_models, windows_size, top_k, similarity, last_k, sort_rule,
           history_errors, model_state, pc, y_series, horizon, y_train,
           y_real_future, curr_lags, forecast, step, iter, selected, err, ret,
           nfit, npredict, hist_at_call, log, heap, sel >>
pair == << heap, sel >>

\* ------------------------------------------------------------------- inputs

Pool == 1..Len(base_models)

RECURSIVE SeqsUpTo(_, _)
SeqsUpTo(S, n) ==
    IF n = 0 THEN { << >> }
    ELSE LET shorter == SeqsUpTo(S, n - 1)
         IN  shorter \cup { Append(s, v) : s \in { t \in shorter : Len(t) = n - 1 }, v \in S }

SmallSeries == SeqsUpTo(0..MaxVal, MaxLen)

\* The linear series 1, 2, ..., 20 and the selector it is forecast with.
LinearSeries == Array([i \in 1..20 |-> i])
LinearConfig ==
    [variant |-> "DCSLA", base_models |-> << "mean", "last" >>, windows_size |-> 5,
     top_k |-> 10, similarity |-> "cosine", last_k |-> 0]

\* The arguments of a predict call: a small series with a small horizon, or
\* the linear series with horizon 3.
Calls ==
    { [series |-> s, horizon |-> h] : s \in SmallSeries, h \in (0 - 1)..MaxHorizon }
    \cup { [series |-> LinearSeries, horizon |-> 3] }

\* The series 0, ..., 0, MaxVal, ..., MaxVal of length n that hold both values.
StepSeries(n) == { [i \in 1..n |-> IF i <= a THEN 0 ELSE MaxVal] : a \in 1..(n - 1) }

\* The arguments of the predict calls of an instance that is called
\* repeatedly: a step series of full length with a positive horizon, or a
\* series too short for most selectors.
SeqCalls ==
    { [series |-> Array(s), horizon |-> h] : s \in StepSeries(MaxLen), h \in 1..MaxHorizon }
    \cup { [series |-> Array(s), horizon |-> h] :
               s \in StepSeries(2) \cup { << >> }, h \in 0..MaxHorizon }

\* The series whose lag windows a caller fits the pool on.
FitSeries == { s \in SmallSeries : Len(s) = windows_size + FitPairs + 1 }

Pools == { << "mean", "last" >>, << "last", "mean" >> }

SmallConfigs ==
    { [variant |-> "DCSLA", base_models |-> p, windows_size |-> w, top_k |-> k,
       similarity |-> m, last_k |-> 0] :
          p \in Pools, w \in 1..MaxW, k \in (0 - 1)..MaxK,
          m \in { "cosine", "euclidean", "manhattan" } }
    \cup
    { [variant |-> "DSNAW", base_models |-> p, windows_size |-> w, top_k |-> 0,
       similarity |-> "none", last_k |-> k] :
          p \in Pools, w \in 1..MaxW, k \in (0 - 1)..MaxK }

Configs == SmallConfigs \cup { LinearConfig }

\* iter before the first iteration that selects a model.  Its field train is
\* y_train and its field lags is curr_lags, both at the top of the iteration.
NoIter == [train |-> << >>, windows |-> << >>, targets |-> << >>, lags |-> << >>,
           top_k_idx |-> << >>, competence_X |-> << >>, competence_y |-> << >>,
           errors |-> << >>]

\* DynamicSelection.__init__, DCSLARegressor.__init__, DSNAW.__init__: the
\* attributes are stored as given, nothing is checked; the pool's models are
\* new, so not yet fit.
InitSelector ==
    /\ \E c \in Configs :
          /\ variant = c.variant
          /\ base_models = c.base_models
          /\ windows_size = c.windows_size
          /\ top_k = c.top_k
          /\ similarity = c.similarity
          /\ last_k = c.last_k
    /\ sort_rule \in IF variant = "DCSLA" THEN { "stable", "reverse" } ELSE { "stable" }
    /\ history_errors = Array([m \in Pool |-> << >>])
    /\ model_state = Array([m \in Pool |-> Unfit])
    /\ pc = "idle"
    /\ y_series = << >>
    /\ horizon = 0
    /\ y_train = << >>
    /\ y_real_future = << >>
    /\ curr_lags = << >>
    /\ forecast = << >>
    /\ step = 0
    /\ iter = NoIter
    /\ selected = << >>
    /\ err = "none"
    /\ ret = << >>
    /\ nfit = 0
    /\ npredict = 0
    /\ hist_at_call = history_errors
    /\ log = << >>

\* One selector; no second one beside it.
Init == InitSelector /\ heap = << >> /\ sel = << >>

\* ----------------------------------------------------------- DCSLARegressor

\* The other end of the ranking: sims.argsort()[:self.top_k].
CosineTopKHead(order, k) == SliceTo(order, k)

\* sims.argsort()[-self.top_k:]
CosineTopK(order, k) == SliceFrom(order, 0 - k)

\* The other end of the ranking: dists.argsort()[-self.top_k:].
EuclideanTopKTail(order, k) == SliceFrom(order, 0 - k)

\* dists.argsort()[:self.top_k]
EuclideanTopK(order, k) == SliceTo(order, k)

\* The keys of the windows against curr_lags under the branch the code takes
\* for the similarity sim: the cosine branch for "cosine", the other one for
\* every other value.
SimilarityKeys(sim, lags, windows) ==
    IF sim = "cosine"
    THEN Array([i \in 1..Len(windows) |-> CosineKey(lags, windows[i])])
    ELSE Array([i \in 1..Len(windows) |-> EuclideanKey(lags, windows[i])])

\* top_k_idx of one iteration.
TopKIdx(sim, rule, k, lags, windows) ==
    LET order == ArgSort(SimilarityKeys(sim, lags, windows), rule)
    IN  IF sim = "cosine" THEN CosineTopK(order, k) ELSE EuclideanTopK(order, k)

\* A pool whose models start each fit from what they held: the new mean is
\* averaged with the old one.
DCSLAFittedWarm(pool, X, y) ==
    Array([m \in 1..Len(pool) |->
              IF model_state[m].fit /\ pool[m] = "mean"
              THEN [fit |-> TRUE,
                    mean |-> RatDivInt(RatAdd(model_state[m].mean,
                                              ModelFit(pool[m], X, y).mean), 2)]
              ELSE ModelFit(pool[m], X, y)])

\* DCSLARegressor._evaluate_models on a non-empty sample: every model of the
\* pool is fit on (X, y), which replaces what it held, ...
DCSLAFitted(pool, X, y) == Array([m \in 1..Len(pool) |-> ModelFit(pool[m], X, y)])

\* A scoring by mean absolute error.
DCSLAErrorsAbsolute(pool, st, X, y) ==
    Array([m \in 1..Len(pool) |-> MeanAbsoluteError(y, ModelPredict(pool[m], st[m], X))])

\* ... and, once fit, is scored on (X, y) by mean squared error.
DCSLAErrors(pool, st, X, y) ==
    Array([m \in 1..Len(pool) |-> MeanSquaredError(y, ModelPredict(pool[m], st[m], X))])

\* -------------------------------------------------------------------- DSNAW

\* The oldest k entries removed instead: windows[self.last_k:].
DropFirstK(s, k) == SliceFrom(s, k)

\* windows[:-self.last_k], targets[:-self.last_k]
DropLastK(s, k) == SliceTo(s, 0 - k)

\* DSNAW._evaluate_models: the first pool position whose predict (or whose
\* error metric, on an empty sample) raises; 0 when none does.
DSNAWFirstRaise(pool, st, X) ==
    LET bad == { m \in 1..Len(pool) : PredictRaises(pool[m], st[m], X) # "none" }
    IN  IF bad = {} THEN 0 ELSE CHOOSE m \in bad : \A n \in bad : m <= n

\* A scoring by mean squared error.
DSNAWErrorsSquared(pool, st, X, y) ==
    Array([m \in 1..Len(pool) |-> MeanSquaredError(y, ModelPredict(pool[m], st[m], X))])

\* A scoring that adds to each model's error the errors its history holds.
DSNAWErrorsPlusHistory(pool, st, X, y) ==
    Array([m \in 1..Len(pool) |->
              RatAdd(MeanAbsoluteError(y, ModelPredict(pool[m], st[m], X)),
                     RatSum(history_errors[m]))])

\* DSNAW._evaluate_models when nothing raises: every model as it is, scored
\* by mean absolute error.
DSNAWErrors(pool, st, X, y) ==
    Array([m \in 1..Len(pool) |-> MeanAbsoluteError(y, ModelPredict(pool[m], st[m], X))])

\* An evaluation that, like the DCSLARegressor's, fits every model on (X, y).
DSNAWEvaluatedRefit(pool, st, X, y) ==
    Array([m \in 1..Len(pool) |-> ModelFit(pool[m], X, y)])

\* What the pool models hold after DSNAW._evaluate_models: what they held,
\* the loop calls predict only.
DSNAWEvaluated(pool, st, X, y) == st

\* An update that appends the error to the list of every model.
UpdateHistoryAll(hist, y_true, m, y_pred) ==
    Array([n \in 1..Len(hist) |->
              Append(hist[n], RatAbs(RatSub(RatInt(y_true), y_pred)))])

\* An update that starts every list afresh.
UpdateHistoryReset(hist, y_true, m, y_pred) ==
    Array([n \in 1..Len(hist) |->
              IF n = m THEN << RatAbs(RatSub(RatInt(y_true), y_pred)) >> ELSE << >>])

\* DynamicSelection.update_history(y_true, {model: y_pred}).
UpdateHistory(hist, y_true, m, y_pred) ==
    [hist EXCEPT ![m] = Append(@, RatAbs(RatSub(RatInt(y_true), y_pred)))]

\* ------------------------------------------------------------------ actions

Outcome(kind) ==
    [op |-> "predict", series |-> y_series, horizon |-> horizon, outcome |-> kind,
     forecast |-> forecast, actual |-> y_real_future]

\* predict raises exception e after k more fit and p more predict invocations.
Raise(e, k, p) ==
    /\ pc' = "raised"
    /\ err' = e
    /\ ret' = << >>
    /\ nfit' = nfit + k
    /\ npredict' = npredict + p
    /\ log' = Append(log, [Outcome("raised") EXCEPT !.forecast = << >>, !.actual = << >>])
    /\ UNCHANGED << config, locals, history_errors, model_state, hist_at_call >>

\* A length test that asks for one point more.
TooShortStrict(series, W, h) == Len(series) <= W + h

\* The length test of predict.
TooShort(series, W, h) == Len(series) < W + h

\* A split that withholds nothing.
TrainPrefixWhole(series, h) == series

\* y_train = y_series[:-horizon]
TrainPrefix(series, h) == SliceTo(series, 0 - h)

\* predict(y_series, horizon) up to its loop: the length test and the split.
PredictEnter(series, h) ==
    /\ pc # "loop"
    /\ y_series' = series
    /\ horizon' = h
    /\ hist_at_call' = history_errors
    /\ nfit' = 0
    /\ npredict' = 0
    /\ iter' = NoIter
    /\ selected' = << >>
    /\ forecast' = << >>
    /\ step' = 0
    /\ ret' = << >>
    /\ IF TooShort(series, windows_size, h)
       THEN /\ pc' = "raised"
            /\ err' = "InsufficientLength"
            /\ y_train' = << >>
            /\ y_real_future' = << >>
            /\ curr_lags' = << >>
            /\ log' = Append(log, [op |-> "predict", series |-> series, horizon |-> h,
                                   outcome |-> "raised", forecast |-> << >>,
                                   actual |-> << >>])
       ELSE /\ pc' = "loop"
            /\ err' = "none"
            /\ y_train' = TrainPrefix(series, h)
            /\ y_real_future' = SliceFrom(series, 0 - h)
            /\ curr_lags' = SliceFrom(TrainPrefix(series, h), 0 - windows_size)
            /\ log' = log
    /\ UNCHANGED << config, history_errors, model_state >>

\* The prediction of the first model of the pool, whichever was selected.
NextValueOfFirst(pool, st, best, lags) == ModelPredictRow(pool[1], st[1], lags)

\* best_model.predict([curr_lags])[0]
NextValue(pool, st, best, lags) == ModelPredictRow(pool[best], st[best], lags)

\* An iteration's end that slides the window in place: curr_lags is a view
\* of the caller's array, so the slide is written into y_series.
AdvanceInPlace(best, y_next) ==
    /\ forecast' = Append(forecast, y_next)
    /\ selected' = Append(selected, best)
    /\ curr_lags' = Append(SliceFrom(curr_lags, 1), y_real_future[step + 1])
    /\ y_train' = Append(y_train, y_real_future[step + 1])
    /\ step' = step + 1
    /\ y_series' =
          LET p == Len(y_series) - horizon - windows_size
          IN  Array([i \in 1..Len(y_series) |->
                        IF p < i /\ i <= p + windows_size
                        THEN Append(SliceFrom(curr_lags, 1), y_real_future[step + 1])[i - p]
                        ELSE y_series[i]])

\* An iteration's end that slides the window over the (whole part of the)
\* prediction.
AdvanceOverPrediction(best, y_next) ==
    /\ forecast' = Append(forecast, y_next)
    /\ selected' = Append(selected, best)
    /\ curr_lags' = Append(SliceFrom(curr_lags, 1), y_next[1] \div y_next[2])
    /\ y_train' = Append(y_train, y_next[1] \div y_next[2])
    /\ step' = step + 1
    /\ y_series' = y_series

\* An iteration's end that keeps y_train at its length: the oldest two
\* points leave as the true value enters.
AdvanceDropOldest(best, y_next) ==
    /\ forecast' = Append(forecast, y_next)
    /\ selected' = Append(selected, best)
    /\ curr_lags' = Append(SliceFrom(curr_lags, 1), y_real_future[step + 1])
    /\ y_train' = Append(SliceFrom(y_train, 2), y_real_future[step + 1])
    /\ step' = step + 1
    /\ y_series' = y_series

\* The end of one iteration: the window slides over the true value, in
\* arrays of its own (np.append copies); y_series is not written.
Advance(best, y_next) ==
    /\ forecast' = Append(forecast, y_next)
    /\ selected' = Append(selected, best)
    /\ curr_lags' = Append(SliceFrom(curr_lags, 1), y_real_future[step + 1])
    /\ y_train' = Append(y_train, y_real_future[step + 1])
    /\ step' = step + 1
    /\ y_series' = y_series

\* One iteration of DCSLARegressor.predict's loop.
DCSLAStep ==
    /\ pc = "loop"
    /\ variant = "DCSLA"
    /\ step < horizon
    /\ LET wt == ExtractLagWindows(y_train, windows_size)
           idx == TopKIdx(similarity, sort_rule, top_k, curr_lags, wt.windows)
           X == Array([j \in 1..Len(idx) |-> wt.windows[idx[j]]])
           y == Array([j \in 1..Len(idx) |-> wt.targets[idx[j]]])
           fitted == DCSLAFitted(base_models, X, y)
           errors == DCSLAErrors(base_models, fitted, X, y)
           best == ArgMin(errors)
       IN  IF Len(wt.windows) = 0
           THEN \* the similarity function refuses the empty array of windows
                Raise("ValueError", 0, 0)
           ELSE IF Len(idx) = 0
           THEN \* the first model's fit refuses the empty sample
                Raise("ValueError", 1, 0)
           ELSE /\ model_state' = fitted
                /\ iter' = [train |-> y_train, windows |-> wt.windows, targets |-> wt.targets,
                            lags |-> curr_lags, top_k_idx |-> idx,
                            competence_X |-> X, competence_y |-> y, errors |-> errors]
                /\ Advance(best, NextValue(base_models, fitted, best, curr_lags))
                /\ nfit' = nfit + Len(base_models)
                /\ npredict' = npredict + Len(base_models) + 1
                /\ UNCHANGED << config, horizon, y_real_future,
                                history_errors, pc, err, ret, hist_at_call, log >>

\* One iteration of DSNAW.predict's loop.
DSNAWStep ==
    /\ pc = "loop"
    /\ variant = "DSNAW"
    /\ step < horizon
    /\ LET wt == ExtractLagWindows(y_train, windows_size)
           X == DropLastK(wt.windows, last_k)
           y == DropLastK(wt.targets, last_k)
           bad == DSNAWFirstRaise(base_models, model_state, X)
           errors == DSNAWErrors(base_models, model_state, X, y)
           best == ArgMin(errors)
           y_next == NextValue(base_models, model_state, best, curr_lags)
       IN  IF bad # 0
           THEN Raise(PredictRaises(base_models[bad], model_state[bad], X), 0, bad)
           ELSE /\ iter' = [train |-> y_train, windows |-> wt.windows, targets |-> wt.targets,
                            lags |-> curr_lags, top_k_idx |-> << >>,
                            competence_X |-> X, competence_y |-> y, errors |-> errors]
                /\ history_errors' =
                       UpdateHistory(history_errors, y_real_future[step + 1], best, y_next)
                /\ Advance(best, y_next)
                /\ model_state' = DSNAWEvaluated(base_models, model_state, X, y)
                /\ npredict' = npredict + Len(base_models) + 1
                /\ UNCHANGED << config, horizon, y_real_future,
                                pc, err, ret, nfit, hist_at_call, log >>

\* predict's loop is over: return np.array(forecast), y_real_future.
PredictReturn ==
    /\ pc = "loop"
    /\ step >= horizon
    /\ pc' = "done"
    /\ ret' = << forecast, y_real_future >>
    /\ log' = Append(log, Outcome("returned"))
    /\ UNCHANGED << config, locals, history_errors, model_state, err, nfit, npredict,
                    hist_at_call >>

\* DynamicSelection.fit(X, y), called with the lag windows of a series.
Fit(series) ==
    /\ pc # "loop"
    /\ LET wt == ExtractLagWindows(series, windows_size)
       IN  /\ Len(wt.windows) > 0
           /\ model_state' = Array([m \in Pool |->
                                    ModelFit(base_models[m], wt.windows, wt.targets)])
    /\ pc' = "idle"
    /\ err' = "none"
    /\ ret' = << >>
    /\ log' = Append(log, [op |-> "fit"])
    /\ UNCHANGED << config, locals, history_errors, nfit, npredict, hist_at_call >>

\* ----------------------------------------------------------- specifications

\* One selector, its pool fit at most once, then one predict call.
Next ==
    /\ UNCHANGED pair
    /\ \/ /\ Len(log) = 0
          /\ \E s \in FitSeries : Fit(s)
       \/ /\ pc = "idle"
          /\ \E c \in Calls : PredictEnter(c.series, c.horizon)
       \/ DCSLAStep
       \/ DSNAWStep
       \/ PredictReturn

Spec == Init /\ [][Next]_vars

Predicts(l) == SelectSeq(l, LAMBDA e : e.op = "predict")

\* One selector, its pool fit at most once, then up to MaxCalls predict calls
\* in succession.
NextSeq ==
    /\ UNCHANGED pair
    /\ \/ /\ Len(log) = 0
          /\ \E s \in FitSeries : Fit(s)
       \/ /\ pc # "loop"
          /\ Len(Predicts(log)) < MaxCalls
          /\ \E c \in SeqCalls : PredictEnter(c.series, c.horizon)
       \/ DCSLAStep
       \/ DSNAWStep
       \/ PredictReturn

SpecSeq == Init /\ [][NextSeq]_vars

\* ------------------------------------------------ two selectors side by side

\* Two selector instances whose predict calls run concurrently, a step of one
\* between any two steps of the other.  A selector is a record: its
\* attributes (base_models holds the kinds of its models, objects the model
\* objects themselves, by their place in heap), the arguments and locals of
\* its predict call, and pc, the place its call has reached:
\*   "idle"     not called yet
\*   "region"   top of the loop: extract the windows, build the region
\*   "fit"      _evaluate_models is about to fit model m (DCSLARegressor)
\*   "score"    _evaluate_models is about to score model m
\*   "select"   np.argmin
\*   "predict"  best_model.predict, update_history, forecast.append
\*   "advance"  curr_lags and y_train slide
\*   "done", "raised"
\* Three fields record what the call has met and are read by no step: fitted,
\* the model objects whose most recent fit was this selector's; foreign,
\* whether the call has scored or predicted with a model whose most recent
\* fit was the other selector's; misfit, whether a forecast value came from
\* such a model while it held another fit than that on this call's region.
Selectors == 1..2

\* Series the two selectors are called with; horizons are 1..PairHorizon.
PairSeries == { << 1 >>, << 0, 1, 1, 0 >>, << 1, 0, 0, 1, 0, 1 >> }
PairHorizon == 2

PairCalls == { [series |-> s, horizon |-> h] : s \in PairSeries, h \in 1..PairHorizon }

PairConfigs ==
    { [variant |-> "DCSLA", top_k |-> k, similarity |-> "cosine", last_k |-> 0] :
          k \in 1..MaxK }
    \cup { [variant |-> "DSNAW", top_k |-> 0, similarity |-> "none", last_k |-> 1] }

\* The model object that is model m of selector s's pool, for the second
\* selector built on the pool of the first.
PoolObjectOfFirst(s, m) == sel[1].objects[m]

\* The model object that is model m of selector s's pool: self.base_models[m].
PoolObject(s, m) == sel[s].objects[m]

\* What the models of selector s's pool hold, by position in the pool.
PoolStates(s) == Array([m \in 1..Len(sel[s].objects) |-> heap[PoolObject(s, m)]])

\* A model object as a caller's DynamicSelection.fit left it.
Prefit == [fit |-> TRUE, mean |-> Rat(1, 2)]

\* The most recent fit of model object o was by another selector than s.
FittedByOther(s, o) == \E t \in DOMAIN sel \ { s } : o \in sel[t].fitted

\* Selector s after construction on the model objects objs.
NewSelector(c, objs) ==
    [variant |-> c.variant, base_models |-> << "mean", "last" >>, objects |-> objs,
     windows_size |-> 1, top_k |-> c.top_k, similarity |-> c.similarity,
     last_k |-> c.last_k, sort_rule |-> "stable",
     history_errors |-> << << >>, << >> >>,
     pc |-> "idle", err |-> "none",
     y_series |-> << >>, horizon |-> 0, y_train |-> << >>, y_real_future |-> << >>,
     curr_lags |-> << >>, forecast |-> << >>, step |-> 0,
     competence_X |-> << >>, competence_y |-> << >>, errors |-> << >>,
     m |-> 0, best |-> 0, models_at_call |-> << >>,
     fitted |-> {}, foreign |-> FALSE, misfit |-> FALSE]

\* Two selectors, each built on two model objects of its own; the four
\* objects are all new, or all fit beforehand.
InitPair ==
    /\ InitSelector
    /\ variant = "DSNAW" /\ base_models = << "mean", "last" >>
    /\ windows_size = 1 /\ last_k = 0
    /\ \E st \in { Unfit, Prefit } : heap = << st, st, st, st >>
    /\ \E c1, c2 \in PairConfigs :
          sel = << NewSelector(c1, << 1, 2 >>), NewSelector(c2, << 3, 4 >>) >>

\* Selector s raises e out of its predict call.
PairRaise(s, e) ==
    /\ sel' = [sel EXCEPT ![s].pc = "raised", ![s].err = e]
    /\ heap' = heap

\* predict(y_series, horizon) up to its loop.
PairEnter(s, series, h) ==
    /\ sel[s].pc = "idle"
    /\ heap' = heap
    /\ IF TooShort(series, sel[s].windows_size, h)
       THEN sel' = [sel EXCEPT ![s].pc = "raised", ![s].err = "InsufficientLength",
                               ![s].y_series = series, ![s].horizon = h,
                               ![s].models_at_call = PoolStates(s)]
       ELSE sel' = [sel EXCEPT
                       ![s].pc = "region",
                       ![s].y_series = series,
                       ![s].horizon = h,
                       ![s].models_at_call = PoolStates(s),
                       ![s].y_train = TrainPrefix(series, h),
                       ![s].y_real_future = SliceFrom(series, 0 - h),
                       ![s].curr_lags = SliceFrom(TrainPrefix(series, h),
                                                  0 - sel[s].windows_size)]

\* The top of an iteration: the windows and the competence region.
PairRegion(s) ==
    /\ sel[s].pc = "region"
    /\ LET r == sel[s]
           wt == ExtractLagWindows(r.y_train, r.windows_size)
           idx == TopKIdx(r.similarity, r.sort_rule, r.top_k, r.curr_lags, wt.windows)
       IN  IF r.variant = "DCSLA"
           THEN IF Len(wt.windows) = 0
                THEN PairRaise(s, "ValueError")
                ELSE /\ sel' = [sel EXCEPT
                                  ![s].pc = "fit",
                                  ![s].m = 1,
                                  ![s].errors = << >>,
                                  ![s].competence_X =
                                      Array([j \in 1..Len(idx) |-> wt.windows[idx[j]]]),
                                  ![s].competence_y =
                                      Array([j \in 1..Len(idx) |-> wt.targets[idx[j]]])]
                     /\ heap' = heap
           ELSE /\ sel' = [sel EXCEPT
                             ![s].pc = "score",
                             ![s].m = 1,
                             ![s].errors = << >>,
                             ![s].competence_X = DropLastK(wt.windows, r.last_k),
                             ![s].competence_y = DropLastK(wt.targets, r.last_k)]
                /\ heap' = heap

\* An evaluation that fits only a model that holds no fit yet.
PairFitIfNew(s) ==
    /\ sel[s].pc = "fit"
    /\ LET r == sel[s]
       IN  IF Len(r.competence_X) = 0
           THEN PairRaise(s, "ValueError")
           ELSE /\ heap' = [heap EXCEPT ![PoolObject(s, r.m)] =
                               IF @.fit THEN @
                               ELSE ModelFit(r.base_models[r.m], r.competence_X,
                                             r.competence_y)]
                /\ sel' = [sel EXCEPT ![s].pc = "score"]

\* _evaluate_models of a DCSLARegressor: model.fit(X, y) for model m.
PairFit(s) ==
    /\ sel[s].pc = "fit"
    /\ LET r == sel[s]
       IN  IF Len(r.competence_X) = 0
           THEN PairRaise(s, "ValueError")
           ELSE /\ heap' = [heap EXCEPT ![PoolObject(s, r.m)] =
                               ModelFit(r.base_models[r.m], r.competence_X, r.competence_y)]
                /\ sel' = [t \in DOMAIN sel |->
                              IF t = s
                              THEN [r EXCEPT !.pc = "score",
                                             !.fitted = @ \cup { PoolObject(s, r.m) }]
                              ELSE [sel[t] EXCEPT !.fitted = @ \ { PoolObject(s, r.m) }]]

\* _evaluate_models: model.predict(X) and the error metric for model m.
PairScore(s) ==
    /\ sel[s].pc = "score"
    /\ LET r == sel[s]
           kind == r.base_models[r.m]
           st == heap[PoolObject(s, r.m)]
           raises == PredictRaises(kind, st, r.competence_X)
           y_pred == ModelPredict(kind, st, r.competence_X)
           e == IF r.variant = "DCSLA"
                THEN MeanSquaredError(r.competence_y, y_pred)
                ELSE MeanAbsoluteError(r.competence_y, y_pred)
       IN  IF raises # "none"
           THEN PairRaise(s, raises)
           ELSE /\ sel' = [sel EXCEPT
                             ![s].foreign = @ \/ FittedByOther(s, PoolObject(s, r.m)),
                             ![s].errors = Append(r.errors, e),
                             ![s].m = IF r.m < Len(r.base_models) THEN r.m + 1 ELSE 0,
                             ![s].pc = IF r.m < Len(r.base_models)
                                       THEN (IF r.variant = "DCSLA" THEN "fit" ELSE "score")
                                       ELSE "select"]
                /\ heap' = heap

\* best_model = self.base_models[np.argmin(errors)]
PairSelect(s) ==
    /\ sel[s].pc = "select"
    /\ sel' = [sel EXCEPT ![s].pc = "predict", ![s].best = ArgMin(sel[s].errors)]
    /\ heap' = heap

\* y_next = best_model.predict([curr_lags])[0], the history update of a
\* DSNAW, forecast.append(y_next).
PairPredict(s) ==
    /\ sel[s].pc = "predict"
    /\ LET r == sel[s]
           y_next == ModelPredictRow(r.base_models[r.best],
                                     heap[PoolObject(s, r.best)], r.curr_lags)
           other == FittedByOther(s, PoolObject(s, r.best))
       IN  sel' = [sel EXCEPT
                      ![s].pc = "advance",
                      ![s].foreign = @ \/ other,
                      ![s].misfit = @ \/ ( /\ other
                                           /\ heap[PoolObject(s, r.best)]
                                                # ModelFit(r.base_models[r.best],
                                                           r.competence_X, r.competence_y) ),
                      ![s].forecast = Append(r.forecast, y_next),
                      ![s].history_errors =
                          IF r.variant = "DSNAW"
                          THEN UpdateHistory(r.history_errors, r.y_real_future[r.step + 1],
                                             r.best, y_next)
                          ELSE r.history_errors]
    /\ heap' = heap

\* The window slides; the loop goes on or predict returns.
PairAdvance(s) ==
    /\ sel[s].pc = "advance"
    /\ LET r == sel[s]
       IN  sel' = [sel EXCEPT
                      ![s].curr_lags = Append(SliceFrom(r.curr_lags, 1),
                                              r.y_real_future[r.step + 1]),
                      ![s].y_train = Append(r.y_train, r.y_real_future[r.step + 1]),
                      ![s].step = r.step + 1,
                      ![s].pc = IF r.step + 1 < r.horizon THEN "region" ELSE "done"]
    /\ heap' = heap

NextPair ==
    /\ UNCHANGED << config, locals, history_errors, model_state, pc, err, ret, nfit,
                    npredict, hist_at_call, log >>
    /\ \E s \in Selectors :
          \/ \E c \in PairCalls : PairEnter(s, c.series, c.horizon)
          \/ PairRegion(s)
          \/ PairFit(s)
          \/ PairScore(s)
          \/ PairSelect(s)
          \/ PairPredict(s)
          \/ PairAdvance(s)

SpecPair == InitPair /\ [][NextPair]_vars

\* Two selectors of which the second is built on one or both of the model
\* objects of the first: the same base_models list, or a list that holds one
\* of the first selector's models.
InitShared ==
    /\ InitSelector
    /\ variant = "DSNAW" /\ base_models = << "mean", "last" >>
    /\ windows_size = 1 /\ last_k = 0
    /\ \E st \in { Unfit, Prefit } : heap = << st, st, st, st >>
    /\ \E c1, c2 \in PairConfigs :
       \E objs \in { << 1, 2 >>, << 1, 4 >>, << 3, 2 >> } :
          sel = << NewSelector(c1, << 1, 2 >>), NewSelector(c2, objs) >>

SpecShared == InitShared /\ [][NextPair]_vars

\* What a predict call gives when nothing runs beside it: the loop of predict
\* from step n on, for a selector r whose pool models hold st.
RECURSIVE AloneLoop(_, _, _, _, _, _, _)
AloneLoop(r, st, train, lags, n, fc, hist) ==
    IF n >= r.horizon
    THEN [outcome |-> "done", forecast |-> fc, history_errors |-> hist]
    ELSE LET wt == ExtractLagWindows(train, r.windows_size)
             idx == TopKIdx(r.similarity, r.sort_rule, r.top_k, lags, wt.windows)
             dcsla == r.variant = "DCSLA"
             X == IF dcsla THEN Array([j \in 1..Len(idx) |-> wt.windows[idx[j]]])
                  ELSE DropLastK(wt.windows, r.last_k)
             y == IF dcsla THEN Array([j \in 1..Len(idx) |-> wt.targets[idx[j]]])
                  ELSE DropLastK(wt.targets, r.last_k)
             fails == IF dcsla THEN Len(wt.windows) = 0 \/ Len(X) = 0
                      ELSE DSNAWFirstRaise(r.base_models, st, X) # 0
             now == IF dcsla THEN DCSLAFitted(r.base_models, X, y) ELSE st
             errors == IF dcsla THEN DCSLAErrors(r.base_models, now, X, y)
                       ELSE DSNAWErrors(r.base_models, now, X, y)
             best == ArgMin(errors)
             y_next == NextValue(r.base_models, now, best, lags)
             true == r.y_real_future[n + 1]
         IN  IF fails
             THEN [outcome |-> "raised", forecast |-> fc, history_errors |-> hist]
             ELSE AloneLoop(r, now, Append(train, true), Append(SliceFrom(lags, 1), true),
                            n + 1, Append(fc, y_next),
                            IF dcsla THEN hist ELSE UpdateHistory(hist, true, best, y_next))

\* The call of selector r, alone, from the models it found at the call.
RunAlone(r) ==
    IF TooShort(r.y_series, r.windows_size, r.horizon)
    THEN [outcome |-> "raised", forecast |-> << >>, history_errors |-> << << >>, << >> >>]
    ELSE AloneLoop(r, r.models_at_call, TrainPrefix(r.y_series, r.horizon),
                   SliceFrom(TrainPrefix(r.y_series, r.horizon), 0 - r.windows_size),
                   0, << >>, << << >>, << >> >>)

\* =================================================================== claims

\* A predict call has ended, by return or by exception.
Finished == pc \in { "done", "raised" }

\* An iteration of the running or last predict call has selected a model.
Iterated == iter # NoIter

\* ----------------------------------------------------------------------- C1

\* The selector's options are all of a recognised, positive value.
ValidConfig ==
    IF variant = "DCSLA"
    THEN top_k >= 1 /\ similarity \in { "cosine", "euclidean" }
    ELSE last_k >= 1

\* The windows that the training prefix of the call's series gives.
PrefixWindows == ExtractLagWindows(SliceTo(y_series, 0 - horizon), windows_size).windows

\* C1 (as stated): a predict call of either variant with horizon >= 1 and
\* len(series) >= windows_size + horizon, whose base models do not fail,
\* returns a forecast and an actual-future sequence of exactly horizon
\* elements each.  It is stated here for validly configured selectors only,
\* and for a DSNAW only when last_k leaves it a window to evaluate on.
C1_ReturnsHorizonValues ==
    ( /\ Finished
      /\ horizon >= 1
      /\ Len(y_series) >= windows_size + horizon
      /\ ValidConfig
      /\ variant = "DSNAW" => last_k < Len(PrefixWindows)
      /\ err # "NotFitted" )
    => ( /\ pc = "done"
         /\ Len(ret[1]) = horizon
         /\ Len(ret[2]) = horizon )

\* ----------------------------------------------------------------------- C2

\* C2: a predict call with len(series) < windows_size + horizon raises the
\* insufficient-length error before any base model's fit or predict is
\* invoked, leaves history_errors as it was and returns nothing; a call that
\* is not too short never raises that error.
C2_TooShortFailsFast ==
    /\ ( Finished /\ Len(y_series) < windows_size + horizon )
       => ( /\ pc = "raised"
            /\ err = "InsufficientLength"
            /\ nfit = 0
            /\ npredict = 0
            /\ history_errors = hist_at_call
            /\ ret = << >> )
    /\ ( pc = "loop" \/ (Finished /\ err = "InsufficientLength") )
       => ( (err = "InsufficientLength") <=> (Len(y_series) < windows_size + horizon) )

\* A too-short call has failed on an instance whose history is not empty.
C2_Witness ==
    /\ pc = "raised"
    /\ err = "InsufficientLength"
    /\ \E m \in Pool : Len(history_errors[m]) > 0

\* ----------------------------------------------------------------------- C3

\* What _extract_lag_windows has to give for series and window size W: the
\* pairs (series[i-W : i], series[i]) for W <= i < N-1 in increasing i.
LagWindowsAsClaimed(series, W, got) ==
    LET N == Len(series)
        n == IF N - W - 1 > 0 THEN N - W - 1 ELSE 0
    IN  /\ Len(got.windows) = n
        /\ Len(got.targets) = n
        /\ \A j \in 1..n :
              /\ Len(got.windows[j]) = W
              /\ \A p \in 1..W : got.windows[j][p] = series[j + p - 1]
              /\ got.targets[j] = series[W + j]
              /\ W + j < N

\* C3: _extract_lag_windows on a series of length N emits exactly the
\* max(0, N-W-1) pairs (series[i-W : i], series[i]), W <= i < N-1, in
\* increasing i; every window has W elements and the last element of the
\* series is never a target.
C3_LagWindows ==
    /\ LagWindowsAsClaimed(y_series, windows_size,
                           ExtractLagWindows(y_series, windows_size))
    /\ LagWindowsAsClaimed(y_train, windows_size,
                           ExtractLagWindows(y_train, windows_size))
    /\ Iterated =>
          LagWindowsAsClaimed(iter.train, windows_size,
                              [windows |-> iter.windows, targets |-> iter.targets])

\* An iteration has extracted three windows or more.
C3_Witness ==
    /\ Iterated
    /\ Len(iter.windows) >= 3
    /\ Len(iter.train) = Len(iter.windows) + windows_size + 1

\* ------------------------------------------------------------------ C4, C5

\* cos(q, a) <= cos(q, b) for vectors without negative entries, a zero
\* vector having cosine 0.
CosAtMost(q, a, b) ==
    IF Dot(a, a) = 0 THEN TRUE
    ELSE IF Dot(b, b) = 0 THEN Dot(q, a) = 0
    ELSE Dot(q, a) * Dot(q, a) * Dot(b, b) <= Dot(q, b) * Dot(q, b) * Dot(a, a)

SqDist(q, a) == SumSeq(Array([i \in 1..Len(q) |-> (q[i] - a[i]) * (q[i] - a[i])]))

\* dist(q, a) <= dist(q, b)
DistAtMost(q, a, b) == SqDist(q, a) <= SqDist(q, b)

\* top_k_idx names top_k different windows of the iteration.
PicksTopK ==
    /\ Len(iter.top_k_idx) = top_k
    /\ \A j \in 1..top_k : iter.top_k_idx[j] \in 1..Len(iter.windows)
    /\ \A j, l \in 1..top_k : j # l => iter.top_k_idx[j] # iter.top_k_idx[l]
    /\ iter.competence_X = [j \in 1..top_k |-> iter.windows[iter.top_k_idx[j]]]
    /\ iter.competence_y = [j \in 1..top_k |-> iter.targets[iter.top_k_idx[j]]]

Picked == { iter.top_k_idx[j] : j \in 1..Len(iter.top_k_idx) }
NotPicked == (1..Len(iter.windows)) \ Picked

CosineCase ==
    /\ variant = "DCSLA"
    /\ similarity = "cosine"
    /\ Iterated
    /\ 1 <= top_k
    /\ top_k <= Len(iter.windows)

\* The region holds the top_k largest cosine scores.
CosineLargest ==
    \A o \in NotPicked : \A i \in Picked :
        CosAtMost(iter.lags, iter.windows[o], iter.windows[i])

\* C4 (as stated): with similarity = 'cosine' and 1 <= top_k <= number of
\* windows, the competence region is the top_k windows of largest cosine
\* similarity to curr_lags, in descending-score order.
C4_CosineDescending ==
    CosineCase =>
        /\ PicksTopK
        /\ CosineLargest
        /\ \A j, l \in 1..top_k : j < l =>
              CosAtMost(iter.lags, iter.windows[iter.top_k_idx[l]],
                        iter.windows[iter.top_k_idx[j]])

\* C4 (amended): with similarity = 'cosine' and 1 <= top_k <= number of
\* windows, the competence region is the top_k windows of largest cosine
\* similarity to curr_lags, in ascending-score order (the most similar
\* window last).
C4_CosineAscending ==
    CosineCase =>
        /\ PicksTopK
        /\ CosineLargest
        /\ \A j, l \in 1..top_k : j < l =>
              CosAtMost(iter.lags, iter.windows[iter.top_k_idx[j]],
                        iter.windows[iter.top_k_idx[l]])

\* A cosine region of two windows with different scores that leaves out a
\* window of a lower score still.
C4_Witness ==
    /\ CosineCase
    /\ top_k = 2
    /\ ~CosAtMost(iter.lags, iter.windows[iter.top_k_idx[2]],
                  iter.windows[iter.top_k_idx[1]])
    /\ \E o \in NotPicked :
          ~CosAtMost(iter.lags, iter.windows[iter.top_k_idx[1]], iter.windows[o])

EuclideanCase ==
    /\ variant = "DCSLA"
    /\ similarity = "euclidean"
    /\ Iterated
    /\ 1 <= top_k
    /\ top_k <= Len(iter.windows)

\* C5: with similarity = 'euclidean' and 1 <= top_k <= number of windows,
\* the competence region is the top_k windows of smallest Euclidean distance
\* to curr_lags, in ascending-distance order.
C5_EuclideanAscending ==
    EuclideanCase =>
        /\ PicksTopK
        /\ \A o \in NotPicked : \A i \in Picked :
              DistAtMost(iter.lags, iter.windows[i], iter.windows[o])
        /\ \A j, l \in 1..top_k : j < l =>
              DistAtMost(iter.lags, iter.windows[iter.top_k_idx[j]],
                         iter.windows[iter.top_k_idx[l]])

\* A Euclidean region of two windows at different distances that leaves out
\* a window farther away still.
C5_Witness ==
    /\ EuclideanCase
    /\ top_k = 2
    /\ ~DistAtMost(iter.lags, iter.windows[iter.top_k_idx[2]],
                   iter.windows[iter.top_k_idx[1]])
    /\ \E o \in NotPicked :
          ~DistAtMost(iter.lags, iter.windows[o], iter.windows[iter.top_k_idx[2]])

\* ----------------------------------------------------------------------- C6

\* Entries i and i+1 of the log are predict calls with the same arguments.
SameArguments(i) ==
    /\ log[i].op = "predict"
    /\ log[i + 1].op = "predict"
    /\ log[i + 1].series = log[i].series
    /\ log[i + 1].horizon = log[i].horizon

\* C6: two predict calls in succession on one instance, with the same series
\* and horizon, end the same way and return the same forecast: what the
\* first call leaves in the models and in the history does not reach the
\* second.
C6_SameCallSameForecast ==
    \A i \in 1..(Len(log) - 1) :
        SameArguments(i) =>
            /\ log[i + 1].outcome = log[i].outcome
            /\ log[i + 1].forecast = log[i].forecast
            /\ log[i + 1].actual = log[i].actual

\* A DCSLARegressor has returned twice from the same call, the mean model
\* having made a forecast value from a fit that the first call replaced.
C6_Witness ==
    /\ variant = "DCSLA"
    /\ pc = "done"
    /\ Len(log) >= 3
    /\ log[1].op = "fit"
    /\ SameArguments(Len(log) - 1)
    /\ horizon = 2
    /\ \E j \in 1..Len(selected) : base_models[selected[j]] = "mean"
    /\ \E j \in 1..Len(forecast) : forecast[j] \notin { RatInt(0), RatInt(MaxVal) }

\* ----------------------------------------------------------------------- C7

\* C7 (as stated): a DSNAW.predict call with last_k >= the number of windows
\* that the training prefix gives raises; it never returns a forecast, not
\* even an empty one.  Stated here for last_k >= 1 and a series longer than
\* one window.
C7_DegenerateRegionRaises ==
    ( /\ variant = "DSNAW"
      /\ Finished
      /\ last_k >= 1
      /\ Len(y_series) > windows_size
      /\ last_k >= Len(PrefixWindows) )
    => pc = "raised"

\* ----------------------------------------------------------------------- C8

\* The selector of the linear scenario has been called on the linear series
\* with horizon 3.
LinearScenario ==
    /\ variant = LinearConfig.variant
    /\ base_models = LinearConfig.base_models
    /\ windows_size = LinearConfig.windows_size
    /\ top_k = LinearConfig.top_k
    /\ similarity = LinearConfig.similarity
    /\ y_series = LinearSeries
    /\ horizon = 3

\* C8: on series = [1, ..., 20] with windows_size = 5, horizon = 3, top_k =
\* 10, cosine similarity and the pool (mean predictor, last-value predictor),
\* DCSLARegressor.predict returns a forecast of length 3 and selects the
\* last-value predictor at each of the 3 steps.
C8_LinearSelectsLastValue ==
    LinearScenario =>
        /\ pc # "raised"
        /\ \A j \in 1..Len(selected) : base_models[selected[j]] = "last"
        /\ pc = "done" =>
              /\ Len(selected) = 3
              /\ Len(ret[1]) = 3
              /\ ret[1] = << RatInt(17), RatInt(18), RatInt(19) >>

\* The call of the linear scenario has returned.
C8_Witness == LinearScenario /\ pc = "done" /\ Len(selected) = 3

\* ----------------------------------------------------------------------- C9

\* C9 (as stated): a predict call with horizon <= 0 raises; it never returns
\* a (forecast, actual_future) result.  Stated here for validly configured
\* selectors and a series longer than one window.
C9_NonPositiveHorizonRaises ==
    ( /\ Finished
      /\ horizon <= 0
      /\ ValidConfig
      /\ Len(y_series) > windows_size )
    => pc = "raised"

\* ---------------------------------------------------------------------- C10

\* C10 (as stated): a DCSLARegressor whose similarity is neither 'cosine'
\* nor 'euclidean' raises at construction or at its first predict call; it
\* never makes a forecast with some metric.  Stated here for calls with
\* top_k >= 1 and horizon >= 1.
C10_UnknownSimilarityRaises ==
    ( /\ variant = "DCSLA"
      /\ similarity \notin { "cosine", "euclidean" }
      /\ top_k >= 1
      /\ horizon >= 1
      /\ Finished )
    => pc = "raised"

\* ---------------------------------------------------------------------- C11

\* C11 (as stated): a selector with a non-positive neighbourhood size (top_k
\* <= 0 in a DCSLARegressor of either metric, last_k <= 0 in a DSNAW) raises
\* at construction or at its first predict call; it never returns a
\* forecast.  Stated here for calls with horizon >= 1.
C11_NonPositiveKRaises ==
    ( /\ Finished
      /\ horizon >= 1
      /\ \/ variant = "DCSLA" /\ top_k <= 0 /\ similarity \in { "cosine", "euclidean" }
         \/ variant = "DSNAW" /\ last_k <= 0 )
    => pc = "raised"

\* ---------------------------------------------------------------------- C12

\* The predict call of selector s has ended.
PairFinished(s) == sel[s].pc \in { "done", "raised" }

\* The number of windows the training prefix of selector s's call gives.
PairPrefixWindows(s) ==
    Len(ExtractLagWindows(SliceTo(sel[s].y_series, 0 - sel[s].horizon),
                          sel[s].windows_size).windows)

\* C12 (as stated): when the neighbourhood size asked for exceeds the number
\* of windows (top_k > #windows in a DCSLARegressor, last_k >= #windows in a
\* DSNAW), both variants do the same: a DCSLARegressor and a DSNAW called on
\* the same series and horizon with such sizes, the DSNAW on a fitted pool,
\* both return a forecast or both raise.
C12_SamePolicy ==
    \A a, b \in DOMAIN sel :
        ( /\ sel[a].variant = "DCSLA"
          /\ sel[b].variant = "DSNAW"
          /\ PairFinished(a)
          /\ PairFinished(b)
          /\ sel[a].y_series = sel[b].y_series
          /\ sel[a].horizon = sel[b].horizon
          /\ sel[a].windows_size = sel[b].windows_size
          /\ sel[a].top_k > PairPrefixWindows(a)
          /\ sel[b].last_k >= PairPrefixWindows(b)
          /\ sel[b].err # "NotFitted" )
        => sel[a].pc = sel[b].pc

\* ---------------------------------------------------------------------- C13

\* C13: two predict calls running side by side on selectors with model
\* objects and histories of their own end, under every interleaving of
\* their steps, as each would alone: same outcome, same forecast, same
\* history_errors.
C13_AsIfAlone ==
    \A s \in DOMAIN sel :
        PairFinished(s) =>
            LET alone == RunAlone(sel[s])
            IN  /\ (sel[s].pc = "done") <=> (alone.outcome = "done")
                /\ sel[s].forecast = alone.forecast
                /\ sel[s].history_errors = alone.history_errors

\* Two DCSLARegressor calls, one of them with horizon 2, have both returned,
\* with different forecasts and with different fits left in their models.
C13_Witness ==
    /\ DOMAIN sel = Selectors
    /\ sel[1].variant = "DCSLA"
    /\ sel[2].variant = "DCSLA"
    /\ sel[1].pc = "done"
    /\ sel[2].pc = "done"
    /\ sel[1].horizon = 2
    /\ sel[1].forecast # sel[2].forecast
    /\ heap[1] # heap[3]

\* ---------------------------------------------------------------------- C14

\* The last h elements of series, in order.
LastElements(series, h) == Array([i \in 1..h |-> series[Len(series) - h + i]])

\* C14: no step of a predict call writes the caller's series, and a call
\* with horizon >= 1 that returns gives as actual_future the last horizon
\* elements of that series, in order.
C14_SeriesUntouched ==
    [][ /\ pc = "loop" => y_series' = y_series
        /\ (pc = "loop" /\ pc' = "done" /\ horizon >= 1)
              => ret'[2] = LastElements(y_series', horizon) ]_vars

\* A call with horizon 2 has returned after sliding its window over a value
\* that differs from the one that left the window.
C14_Witness ==
    /\ pc = "done"
    /\ horizon = 2
    /\ Len(ret[2]) = 2
    /\ ret[2][1] # y_series[Len(y_series) - horizon - windows_size + 1]

\* ---------------------------------------------------------------------- C15

\* a is a prefix of b.
IsPrefix(a, b) == Len(a) <= Len(b) /\ SubSeq(b, 1, Len(a)) = a

\* C15: on a DSNAW instance no step ever resets history_errors: each model's
\* list after a step starts with the list before it, over every sequence of
\* predict calls.
C15_HistoryOnlyGrows ==
    [][ variant = "DSNAW" =>
            \A m \in Pool : IsPrefix(history_errors[m], history_errors'[m]) ]_vars

\* A second predict call on a DSNAW instance has returned, the instance
\* holding errors of the first call and of the second.
C15_Witness ==
    /\ variant = "DSNAW"
    /\ pc = "done"
    /\ Len(Predicts(log)) = 2
    /\ \E m \in Pool : Len(hist_at_call[m]) > 0
    /\ \E m \in Pool : Len(history_errors[m]) > Len(hist_at_call[m])
    /\ \E m \in Pool : Len(history_errors[m]) >= 2

\* ---------------------------------------------------------------------- C16

\* C16: at the top of step s of predict's loop (0 <= s < horizon), y_train
\* is the first len(series) - horizon + s elements of the series and
\* curr_lags is the last windows_size elements of y_train: the window has
\* been advanced over the true values, not over the predictions.
C16_WindowFollowsSeries ==
    ( pc = "loop" /\ step < horizon )
    => /\ y_train = SubSeq(y_series, 1, Len(y_series) - horizon + step)
       /\ Len(curr_lags) = windows_size
       /\ curr_lags = SubSeq(y_train, Len(y_train) - windows_size + 1, Len(y_train))

\* The second step of a call is about to start, the first step having
\* predicted another value than the true one.
C16_Witness ==
    /\ pc = "loop"
    /\ step = 1
    /\ horizon = 2
    /\ forecast[1] # RatInt(y_real_future[1])

\* ---------------------------------------------------------------------- C17

\* C17 (as stated): in DCSLARegressor.predict no withheld point is used for
\* fitting: every window and target of a step's competence region lies in
\* the first len(series) - horizon elements of the series.  The target of
\* window j is element windows_size + j of y_train.
C17_FutureNeverFitted ==
    ( /\ variant = "DCSLA"
      /\ ValidConfig
      /\ horizon >= 1
      /\ Iterated )
    => \A j \in 1..Len(iter.top_k_idx) :
           windows_size + iter.top_k_idx[j] <= Len(y_series) - horizon

\* ---------------------------------------------------------------------- C18

\* C18: at every DCSLARegressor step every pool model is fit on that step's
\* competence region, which replaces what it held, and its error is the mean
\* squared error of its predictions on that region; nothing else is fit, so
\* a call that returns for horizon h has made h fits per pool model.
C18_RefitOnRegion ==
    ( variant = "DCSLA" /\ Iterated /\ pc \in { "loop", "done" } )
    => /\ \A m \in Pool :
             LET fit == ModelFit(base_models[m], iter.competence_X, iter.competence_y)
             IN  /\ model_state[m] = fit
                 /\ iter.errors[m] =
                       MeanSquaredError(iter.competence_y,
                                        ModelPredict(base_models[m], fit, iter.competence_X))
       /\ nfit = step * Len(base_models)
       /\ (pc = "done" /\ horizon >= 1) => nfit = horizon * Len(base_models)

\* A DCSLARegressor call with horizon 2 has returned, its last step having
\* scored a model with an error that is not a whole number.
C18_Witness ==
    /\ variant = "DCSLA"
    /\ pc = "done"
    /\ horizon = 2
    /\ nfit = 2 * Len(base_models)
    /\ \E m \in Pool : iter.errors[m][2] # 1

\* ---------------------------------------------------------------------- C19

\* C19: at every DCSLARegressor step the value appended to the forecast is
\* the prediction from curr_lags of a pool model whose error on the step's
\* competence region is at most every other model's, as that model is after
\* its fit on that region.
C19_AppendsBestPrediction ==
    ( variant = "DCSLA" /\ Iterated /\ pc \in { "loop", "done" } )
    => LET b == selected[step]
           fit == ModelFit(base_models[b], iter.competence_X, iter.competence_y)
       IN  /\ Len(forecast) = step
           /\ \A m \in Pool : ~RatLess(iter.errors[m], iter.errors[b])
           /\ forecast[step] = ModelPredictRow(base_models[b], fit, iter.lags)
           /\ model_state[b] = fit

\* A DCSLARegressor call has selected the second model of its pool at one
\* step and the first at another, the two models disagreeing on the last
\* value.
C19_Witness ==
    /\ variant = "DCSLA"
    /\ pc = "done"
    /\ horizon = 2
    /\ selected[1] # selected[2]
    /\ \E m \in Pool : ModelPredictRow(base_models[m], model_state[m], iter.lags)
                          # forecast[step]

\* ---------------------------------------------------------------------- C20

\* C20 (as stated): in a DSNAW forecast every pool model is fit exactly
\* once, before the first step, on the windows and targets of the initial
\* training prefix.  Stated here for calls with horizon >= 1 that return.
C20_FitOnceUpfront ==
    ( /\ variant = "DSNAW"
      /\ pc = "done"
      /\ horizon >= 1
      /\ last_k >= 1
      /\ last_k < Len(PrefixWindows) )
    => LET wt == ExtractLagWindows(SliceTo(y_series, 0 - horizon), windows_size)
       IN  /\ nfit = Len(base_models)
           /\ \A m \in Pool :
                 model_state[m] = ModelFit(base_models[m], wt.windows, wt.targets)

\* ---------------------------------------------------------------------- C21

RegionMAE(m) ==
    MeanAbsoluteError(iter.competence_y,
                      ModelPredict(base_models[m], model_state[m], iter.competence_X))
RegionMSE(m) ==
    MeanSquaredError(iter.competence_y,
                     ModelPredict(base_models[m], model_state[m], iter.competence_X))

\* C23: at every DSNAW step the forecast value is the prediction from
\* curr_lags of a pool model whose mean absolute error over the step's
\* competence region is at most that of every other pool model.
C23_LeastAbsoluteError ==
    ( variant = "DSNAW" /\ Iterated /\ pc \in { "loop", "done" } )
    => LET b == selected[step]
       IN  /\ \A m \in Pool : iter.errors[m] = RegionMAE(m)
           /\ \A m \in Pool : ~RatLess(RegionMAE(m), RegionMAE(b))
           /\ forecast[step] = ModelPredictRow(base_models[b], model_state[b], iter.lags)

\* A DSNAW step has chosen a model that the mean squared error would not
\* have chosen.
C23_Witness ==
    /\ variant = "DSNAW"
    /\ Iterated
    /\ pc \in { "loop", "done" }
    /\ \E m \in Pool : RatLess(RegionMSE(m), RegionMSE(selected[step]))

\* ---------------------------------------------------------------------- C24

\* The errors |y_future[s] - forecast[s]| of the steps s = from..step of the
\* running call at which pool model m was chosen, in step order.
RECURSIVE ChosenErrors(_, _)
ChosenErrors(m, from) ==
    IF from > step THEN << >>
    ELSE (IF selected[from] = m
          THEN << RatAbs(RatSub(RatInt(y_real_future[from]), forecast[from])) >>
          ELSE << >>) \o ChosenErrors(m, from + 1)

\* The number of entries history_errors holds.
RECURSIVE Entries(_, _)
Entries(hist, n) == IF n = 0 THEN 0 ELSE Len(hist[n]) + Entries(hist, n - 1)

\* C24: in a DSNAW.predict call each finished step s has appended the one
\* entry |y_future[s] - forecast[s]| to the list of the model chosen at s
\* and nothing to any other list, so h entries are added when the call
\* returns; a DCSLARegressor's history stays empty.
C24_OneEntryPerStep ==
    /\ ( variant = "DSNAW" /\ pc \in { "loop", "done" } )
       => /\ \A m \in Pool : history_errors[m] = hist_at_call[m] \o ChosenErrors(m, 1)
          /\ Entries(history_errors, Len(base_models))
                = Entries(hist_at_call, Len(base_models)) + step
          /\ pc = "done" /\ horizon >= 1 => step = horizon
    /\ variant = "DCSLA" => \A m \in Pool : history_errors[m] = << >>

\* A DSNAW call of two steps has returned on an instance that held errors
\* already, having chosen both models and missed a true value.
C24_Witness ==
    /\ variant = "DSNAW"
    /\ pc = "done"
    /\ horizon = 2
    /\ Entries(hist_at_call, Len(base_models)) > 0
    /\ selected[1] # selected[2]
    /\ \E m \in Pool : ChosenErrors(m, 1) \notin { << >>, << RatInt(0) >> }

\* ---------------------------------------------------------------------- C25

\* C25 (as stated): a call that passes the length test (len(series) >=
\* windows_size + horizon, horizon >= 1) extracts at every step a window set
\* of at least one (window, target) pair.
C25_GuardGivesWindows ==
    ( pc = "loop" /\ horizon >= 1 /\ step < horizon )
    => Len(ExtractLagWindows(y_train, windows_size).windows) >= 1

\* ---------------------------------------------------------------------- C28

\* C28: when several pool models attain the least error of a step, the
\* selector (either variant) chooses the one earliest in base_models: every
\* model before the chosen one has a strictly larger error.
C28_EarliestOnTies ==
    ( Iterated /\ pc \in { "loop", "done" } )
    => /\ \A m \in Pool : ~RatLess(iter.errors[m], iter.errors[selected[step]])
       /\ \A m \in 1..(selected[step] - 1) :
              RatLess(iter.errors[selected[step]], iter.errors[m])

\* A step has chosen the first model of the pool, the second having the same
\* error and another prediction.
C28_Witness ==
    /\ Iterated
    /\ pc \in { "loop", "done" }
    /\ selected[step] = 1
    /\ iter.errors[2] = iter.errors[1]
    /\ ModelPredictRow(base_models[2], model_state[2], iter.lags) # forecast[step]

\* ---------------------------------------------------------------------- C30

\* The size of the region a DSNAW step builds from the training series train.
RegionSize(train) ==
    Len(DropLastK(ExtractLagWindows(train, windows_size).windows, last_k))

\* C30: in DSNAW.predict the region of a step is never smaller than that of
\* the step before, so a call that fails on an empty region fails at its
\* first step and has appended nothing to history_errors.
C30_RegionNeverShrinks ==
    variant = "DSNAW" =>
        /\ ( Iterated /\ pc = "loop" /\ step < horizon )
              => RegionSize(y_train) >= Len(iter.competence_X)
        /\ ( pc = "raised" /\ err = "ValueError" )
              => ( step = 0 /\ history_errors = hist_at_call )

\* A DSNAW on a fitted pool has failed on an empty region although its
\* training prefix gave windows.
C30_Witness ==
    /\ variant = "DSNAW"
    /\ pc = "raised"
    /\ err = "ValueError"
    /\ last_k >= 1
    /\ Len(PrefixWindows) >= 1
    /\ \A m \in Pool : model_state[m].fit

\* ---------------------------------------------------------------------- C27

\* The series of the length of y_series that agree with it on the first n
\* elements.
AgreeingSeries(n) ==
    { alt \in SmallSeries \cup { y_series } :
          /\ Len(alt) = Len(y_series)
          /\ \A i \in 1..Len(alt) : i <= n => alt[i] = y_series[i] }

\* The forecast values of the first n steps of predict(series, horizon) on
\* this selector, from the models the running call started with.
ForecastOn(series, n) ==
    AloneLoop([variant |-> variant, base_models |-> base_models,
               windows_size |-> windows_size, top_k |-> top_k,
               similarity |-> similarity, last_k |-> last_k, sort_rule |-> sort_rule,
               horizon |-> n, y_real_future |-> SliceFrom(series, 0 - horizon)],
              IF variant = "DSNAW" THEN model_state ELSE [m \in Pool |-> Unfit],
              TrainPrefix(series, horizon),
              SliceFrom(TrainPrefix(series, horizon), 0 - windows_size),
              0, << >>, << << >>, << >> >>).forecast

\* C27: no look-ahead. The forecast value of step s (counted from 0, here
\* s = step - 1) is the same for every series of the same length that agrees
\* with y_series on its first len(series) - horizon + s elements.
C27_NoLookAhead ==
    ( pc \in { "loop", "done" } /\ step >= 1 )
    => \A alt \in AgreeingSeries(Len(y_series) - horizon + step - 1) :
           LET fc == ForecastOn(alt, step)
           IN  /\ Len(fc) = step
               /\ fc[step] = forecast[step]

\* The second step of a call has forecast a value that another series,
\* equal up to the first withheld element, would not have got, the first
\* step's value being the same for both.
C27_Witness ==
    /\ pc \in { "loop", "done" }
    /\ step = 2
    /\ \E alt \in AgreeingSeries(Len(y_series) - horizon) :
          LET fc == ForecastOn(alt, 2)
          IN  /\ Len(fc) = 2
              /\ fc[1] = forecast[1]
              /\ fc[2] # forecast[2]

\* ---------------------------------------------------------------------- C29

\* C29: history_errors is write-only for a DSNAW. Two predict calls with the
\* same series and horizon on models holding the same fit have the same
\* outcome and the same forecast whatever history_errors held at each call;
\* and every call runs as it would from an empty history.
C29_HistoryWriteOnly ==
    variant = "DSNAW" =>
        /\ \A i \in DOMAIN log : \A j \in DOMAIN log :
              ( /\ i < j
                /\ log[i].op = "predict"
                /\ log[j].op = "predict"
                /\ log[i].series = log[j].series
                /\ log[i].horizon = log[j].horizon )
              => ( /\ log[i].outcome = log[j].outcome
                   /\ log[i].forecast = log[j].forecast )
        /\ ( pc \in { "loop", "done" } /\ step >= 1 )
              => forecast = ForecastOn(y_series, step)

\* A DSNAW has returned from a second call with the series and horizon of
\* its first, begun with a history of one error of 0 and one of 1.
C29_Witness ==
    /\ variant = "DSNAW"
    /\ pc = "done"
    /\ horizon = 2
    /\ Len(Predicts(log)) = 2
    /\ Predicts(log)[1].series = y_series
    /\ Predicts(log)[1].horizon = horizon
    /\ Predicts(log)[1].outcome = "returned"
    /\ \E m \in Pool : RatSum(hist_at_call[m]) = RatInt(1)
    /\ history_errors # hist_at_call

\* ---------------------------------------------------------------------- C26

\* C26: sharing a base-model object between two concurrently running
\* forecasts is what makes them unsafe. A call that ends otherwise than it
\* would alone (outcome or forecast) has scored or predicted with a model
\* whose most recent fit was the other selector's, and such an interleaving
\* exists.
C26_SharingUnsafe ==
    \A s \in DOMAIN sel :
        ( PairFinished(s) /\ ~sel[s].foreign )
        => LET alone == RunAlone(sel[s])
           IN  /\ (sel[s].pc = "done") <=> (alone.outcome = "done")
               /\ sel[s].forecast = alone.forecast

\* Two DCSLARegressor calls on a shared model have run interleaved; the
\* first has returned a forecast of which a value came from a model last fit
\* by the other call on another region, and it is not the forecast the call
\* gives alone.
C26_Witness ==
    /\ DOMAIN sel = Selectors
    /\ sel[1].variant = "DCSLA"
    /\ sel[2].variant = "DCSLA"
    /\ sel[1].pc = "done"
    /\ sel[1].misfit
    /\ RunAlone(sel[1]).outcome = "done"
    /\ sel[1].forecast # RunAlone(sel[1]).forecast

====
